---- MODULE Spec2Model ----
(***************************************************************************)
(* A model of the mitosis genetic-algorithm operators: generate, evaluate, *)
(* select and crossover (src/mitosis/*.py).                                *)
(*                                                                         *)
(* The four operations are module-level functions that share one piece of  *)
(* mutable state, the global generator of Python's random module (and the  *)
(* global generator of numpy.random).  A driver calls them one at a time:  *)
(* pc = "idle" between calls, pc = "done" when a call has returned or      *)
(* raised and its outcome is in result.                                    *)
(*                                                                         *)
(* Numbers.  Fitness scores are integers.  random.random() is the fraction *)
(* st / RngMod of the generator state st.  The float arithmetic of         *)
(* stochastic universal sampling is modelled with its rounding, on floats  *)
(* of FloatBits significant bits.                                          *)
(***************************************************************************)
EXTENDS Integers, Sequences, FiniteSets, TLC

VARIABLES
    pc,            \* "idle" | "done": the driver's position
    rng,           \* state of the global generator of the random module
    nprng,         \* state of the global generator of numpy.random
    call,          \* the call in progress or just finished: [op, args]
    result,        \* its outcome: [status, value]
    fitnessCalls,  \* evaluate: the arguments evaluation_fn was called with, in order
    tournaments,   \* tournament_selection: the tournaments held, in order
    sampling,      \* stochastic universal sampling: the ruler and the samples drawn
    customCalls,   \* crossover: the calls custom_function received
    ref            \* an earlier call and its outcome, kept for comparison

vars == <<pc, rng, nprng, call, result, fitnessCalls, tournaments, sampling, customCalls, ref>>

----------------------------------------------------------------------------
(* Bounds of the model *)

MaxPop == 2        \* generate / evaluate: largest population
MaxLen == 2        \* generate / evaluate / crossover: longest chromosome
MaxEval == 2       \* select: largest evaluated population
MaxPairs == 2      \* crossover: most parent pairs

Seeds == {0, 1}

----------------------------------------------------------------------------
(* Outcomes of a call *)

Ok(v) == [status |-> "ok", value |-> v]
Raise(e) == [status |-> e, value |-> <<>>]
NoCall == [op |-> "none", args |-> <<>>]
NoResult == [status |-> "none", value |-> <<>>]
NoRef == [call |-> NoCall, result |-> NoResult]
NoSampling == [ruler |-> <<>>, samples |-> <<>>]

RECURSIVE SeqsUpTo(_, _)
SeqsUpTo(S, n) ==
    IF n = 0 THEN {<<>>}
    ELSE LET shorter == SeqsUpTo(S, n - 1)
         IN shorter \cup {Append(s, x) : s \in {t \in shorter : Len(t) = n - 1}, x \in S}

Genes == {0, 1}

RECURSIVE Chromosomes(_)
Chromosomes(len) ==
    IF len = 0 THEN {<<>>}
    ELSE {Append(c, g) : c \in Chromosomes(len - 1), g \in Genes}

----------------------------------------------------------------------------
(* The random module.  The generator is a deterministic stream: seed()     *)
(* puts it in a state that depends on the seed alone, and every draw       *)
(* advances it.                                                            *)

RngMod == 8

RngInit == 0

\* (a call that does not reseed goes on from the state it finds)
NoReseed(st, seed) == st

\* random.seed(seed)

SeedRng(st, seed) == (3 * seed + 1) % RngMod

RngNext(st) == (5 * st + 3) % RngMod

\* random.random(): the fraction val / RngMod, in [0, 1)
Random(st) == [st |-> RngNext(st), val |-> st]

\* random's _randbelow(n): an integer in 0 .. n-1
RandBelow(st, n) == [st |-> RngNext(st), val |-> (st * n) \div RngMod]

\* random.sample(population, k) for 0 <= k <= len(population): k draws
\* from a pool, the drawn slot refilled with the pool's last live entry
RECURSIVE SampleLoop(_, _, _, _, _)
SampleLoop(st, pool, k, i, acc) ==
    IF i = k THEN [st |-> st, val |-> acc]
    ELSE LET n == Len(pool)
             d == RandBelow(st, n - i)
             j == d.val + 1
         IN SampleLoop(d.st, [pool EXCEPT ![j] = pool[n - i]], k, i + 1,
                       Append(acc, pool[j]))

Sample(st, population, k) == SampleLoop(st, population, k, 0, <<>>)

\* random.shuffle(x): for i from len-1 down to 1, swap x[i] with x[randbelow(i+1)]
RECURSIVE ShuffleLoop(_, _, _)
ShuffleLoop(st, x, i) ==
    IF i < 1 THEN [st |-> st, val |-> x]
    ELSE LET d == RandBelow(st, i + 1)
             j == d.val
         IN ShuffleLoop(d.st, [x EXCEPT ![i + 1] = x[j + 1], ![j + 1] = x[i + 1]], i - 1)

Shuffle(st, x) == ShuffleLoop(st, x, Len(x) - 1)

\* random.choices(population, k=k): k independent draws, population[floor(random() * n)]
RECURSIVE ChoicesLoop(_, _, _, _)
ChoicesLoop(st, population, k, acc) ==
    IF Len(acc) = k THEN [st |-> st, val |-> acc]
    ELSE LET r == Random(st)
             j == (r.val * Len(population)) \div RngMod
         IN ChoicesLoop(r.st, population, k, Append(acc, population[j + 1]))

Choices(st, population, k) == ChoicesLoop(st, population, k, <<>>)

----------------------------------------------------------------------------
(* Python floats.  A float is m * 2^e with a significand of FloatBits bits  *)
(* (53 in CPython), kept normalised: 2^(FloatBits-1) <= |m| < 2^FloatBits,  *)
(* or m = 0 and e = 0.  Every operation gives the exact result rounded to   *)
(* the nearest float, ties to the even significand.  random.random() is a   *)
(* multiple of 2^-FloatBits, as in CPython, so RngMod = 2^FloatBits.        *)

FloatBits == 3

RECURSIVE Pow2(_)
Pow2(n) == IF n <= 0 THEN 1 ELSE 2 * Pow2(n - 1)

Abs(n) == IF n < 0 THEN -n ELSE n

Sign(n) == IF n < 0 THEN -1 ELSE 1

\* The bounds of a normalised significand
MinSignificand == Pow2(FloatBits - 1)
MaxSignificand == Pow2(FloatBits)

\* The float nearest to sign * (m + s) * 2^e for an integer m > 0, where s
\* is 0, or some fraction strictly between 0 and 1 when sticky.  Low bits
\* are dropped one at a time, sticky remembering whether a one was dropped;
\* the last bit dropped decides: up when it is a one and either a one was
\* dropped before it or the significand left is odd.
RECURSIVE Normalise(_, _, _, _)
Normalise(sign, m, e, sticky) ==
    IF m < MinSignificand THEN Normalise(sign, 2 * m, e - 1, sticky)
    ELSE IF m < MaxSignificand THEN [m |-> sign * m, e |-> e]
    ELSE IF m >= 2 * MaxSignificand
    THEN Normalise(sign, m \div 2, e + 1, sticky \/ m % 2 = 1)
    ELSE IF m % 2 = 1 /\ (sticky \/ (m \div 2) % 2 = 1)
    THEN Normalise(sign, (m \div 2) + 1, e + 1, FALSE)
    ELSE Normalise(sign, m \div 2, e + 1, FALSE)

\* The float nearest to the integer m times 2^e
RoundFloat(m, e) ==
    IF m = 0 THEN [m |-> 0, e |-> 0] ELSE Normalise(Sign(m), Abs(m), e, FALSE)

\* float(n) for an int n
FromInt(n) == RoundFloat(n, 0)

\* x + y
FAdd(x, y) ==
    LET e == IF x.e < y.e THEN x.e ELSE y.e
    IN RoundFloat(x.m * Pow2(x.e - e) + y.m * Pow2(y.e - e), e)

\* x < y
FLess(x, y) ==
    LET e == IF x.e < y.e THEN x.e ELSE y.e
    IN x.m * Pow2(x.e - e) < y.m * Pow2(y.e - e)

\* x <= y
FLessEq(x, y) == ~FLess(y, x)

\* The float random.random() returned, times x
FMulRandom(numerator, x) == RoundFloat(numerator * x.m, x.e - FloatBits)

\* Guard bits of the quotient kept before rounding: enough for any divisor
\* below 2^(GuardBits - 2)
GuardBits == 8

\* x / n for an int n # 0: the quotient with GuardBits more bits, rounded
\* with the remainder of the division as the bits below them
FDivInt(x, n) ==
    IF x.m = 0 THEN [m |-> 0, e |-> 0]
    ELSE Normalise(Sign(x.m) * Sign(n), (Abs(x.m) * Pow2(GuardBits)) \div Abs(n),
                   x.e - GuardBits, (Abs(x.m) * Pow2(GuardBits)) % Abs(n) # 0)

----------------------------------------------------------------------------
(* generate.py *)

ChoicesK == 112

\* ''.join(genotype) of a one-character string: the same characters
Join(genotype) == genotype

\* generate(searchspace_size, population_size, random_seed): the result and
\* the generator state it leaves.  A Python string is the sequence of its
\* characters.
generate(st, searchspace_size, population_size, random_seed) ==
    LET seeded == SeedRng(st, random_seed)
        drawn == Choices(seeded, <<"0", "1">>, ChoicesK)
        population == [i \in 1..Len(drawn.val) |-> Join(<<drawn.val[i]>>)]
    IN [st |-> drawn.st, result |-> Ok(population)]

----------------------------------------------------------------------------
(* evaluate.py *)

RECURSIVE Sum(_)
Sum(s) == IF s = <<>> THEN 0 ELSE s[1] + Sum(Tail(s))

\* The scoring functions the driver passes: pure functions of a chromosome
FitnessFns == {"sum", "neg", "diff", "len"}

ApplyFn(f, chromosome) ==
    CASE f = "sum" -> Sum(chromosome)
      [] f = "neg" -> 0 - Sum(chromosome)
      [] f = "diff" -> IF chromosome = <<>> THEN 0 ELSE 2 * chromosome[1] - Sum(chromosome)
      [] f = "len" -> Len(chromosome)

\* [(chromosome, evaluation_fn(chromosome)) for chromosome in population]:
\* the list built, and the calls of evaluation_fn made on the way
RECURSIVE EvaluateReversed(_, _, _, _)
EvaluateReversed(population, evaluation_fn, acc, calls) ==
    IF population = <<>> THEN [result |-> Ok(acc), calls |-> calls]
    ELSE LET chromosome == population[Len(population)]
         IN EvaluateReversed(SubSeq(population, 1, Len(population) - 1), evaluation_fn,
                             Append(acc, <<chromosome, ApplyFn(evaluation_fn, chromosome)>>),
                             Append(calls, chromosome))

RECURSIVE EvaluateLoop(_, _, _, _)
EvaluateLoop(population, evaluation_fn, acc, calls) ==
    IF population = <<>> THEN [result |-> Ok(acc), calls |-> calls]
    ELSE LET chromosome == Head(population)
         IN EvaluateLoop(Tail(population), evaluation_fn,
                         Append(acc, <<chromosome, ApplyFn(evaluation_fn, chromosome)>>),
                         Append(calls, chromosome))

\* (the same comprehension over the population taken from its end)
evaluate_reversed(population, evaluation_fn) ==
    EvaluateReversed(population, evaluation_fn, <<>>, <<>>)

evaluate(population, evaluation_fn) == EvaluateLoop(population, evaluation_fn, <<>>, <<>>)

----------------------------------------------------------------------------
(* select.py *)

SelectionMethods == {"TOURNAMENT", "STOCHASTIC", "FITNESS", "SIGMA", "BOLTZMANN", "RANK"}

DefaultTournamentSize == 5

\* list.sort(key=score): ascending, stable
RECURSIVE InsertByScore(_, _)
InsertByScore(sorted, e) ==
    IF sorted = <<>> THEN <<e>>
    ELSE IF sorted[Len(sorted)][2] <= e[2] THEN Append(sorted, e)
    ELSE Append(InsertByScore(SubSeq(sorted, 1, Len(sorted) - 1), e), sorted[Len(sorted)])

RECURSIVE SortByScore(_)
SortByScore(s) ==
    IF s = <<>> THEN <<>>
    ELSE InsertByScore(SortByScore(SubSeq(s, 1, Len(s) - 1)), s[Len(s)])

\* random.sample raises ValueError unless 0 <= k <= len(population)
SampleTooLarge(population, k) == k < 0 \/ k > Len(population)

\* _tournament(evaluated_population, tournament_size, previous_winner).
\* previous_winner is {} for None and {chromosome} otherwise.
\* Gives the generator state, the outcome (the winner, or the exception) and
\* the tournament as sampled.
_tournament(st, evaluated_population, tournament_size, previous_winner) ==
    IF SampleTooLarge(evaluated_population, tournament_size)
    THEN [st |-> st, result |-> Raise("ValueError"), sample |-> <<>>]
    ELSE LET drawn == Sample(st, evaluated_population, tournament_size)
             tournament == SortByScore(drawn.val)
         IN IF Len(tournament) < 1
            THEN [st |-> drawn.st, result |-> Raise("IndexError"), sample |-> drawn.val]
            ELSE IF tournament[1][1] \in previous_winner
            THEN IF Len(tournament) < 2
                 THEN [st |-> drawn.st, result |-> Raise("IndexError"), sample |-> drawn.val]
                 ELSE [st |-> drawn.st, result |-> Ok(tournament[2][1]), sample |-> drawn.val]
            ELSE [st |-> drawn.st, result |-> Ok(tournament[1][1]), sample |-> drawn.val]

\* The loop of tournament_selection: `left` iterations to go
RECURSIVE TournamentLoop(_, _, _, _, _, _)
TournamentLoop(st, evaluated_population, tournament_size, left, parent_pairs, held) ==
    IF left <= 0
    THEN [st |-> st, result |-> Ok(parent_pairs), tournaments |-> held]
    ELSE LET one == _tournament(st, evaluated_population, tournament_size, {})
         IN IF one.result.status # "ok"
            THEN [st |-> one.st, result |-> one.result, tournaments |-> held]
            ELSE LET two == _tournament(one.st, evaluated_population, tournament_size, {})
                     heldOne == Append(held, [sample |-> one.sample, winner |-> one.result.value])
                 IN IF two.result.status # "ok"
                    THEN [st |-> two.st, result |-> two.result, tournaments |-> heldOne]
                    ELSE TournamentLoop(two.st, evaluated_population, tournament_size, left - 1,
                             Append(parent_pairs, <<one.result.value, two.result.value>>),
                             Append(heldOne, [sample |-> two.sample, winner |-> two.result.value]))

\* (the loop run once per chromosome, the elites not left out)
tournament_selection_no_elites(st, evaluated_population, random_seed, num_elites, tournament_size) ==
    TournamentLoop(SeedRng(st, random_seed), evaluated_population, tournament_size,
                   Len(evaluated_population), <<>>, <<>>)

tournament_selection(st, evaluated_population, random_seed, num_elites, tournament_size) ==
    TournamentLoop(SeedRng(st, random_seed), evaluated_population, tournament_size,
                   Len(evaluated_population) - num_elites, <<>>, <<>>)

\* _calculate_accumulated_fitness
RECURSIVE AccumulateLoop(_, _, _)
AccumulateLoop(evaluated_population, accumulated_fitness, fitness_ruler) ==
    IF evaluated_population = <<>> THEN fitness_ruler
    ELSE LET chromosome == Head(evaluated_population)
             acc == FAdd(accumulated_fitness, FromInt(chromosome[2]))
         IN AccumulateLoop(Tail(evaluated_population), acc,
                           Append(fitness_ruler, <<chromosome[1], acc>>))

_calculate_accumulated_fitness(evaluated_population) ==
    AccumulateLoop(evaluated_population, FromInt(0), <<>>)

\* The inner while of _stochastic_universal_sample: the first index from
\* chromosome_index on whose cumulative fitness is not below the target.
\* Len + 1 when the walk runs off the ruler.
\* (the walk with <= for <: it would step over an entry equal to the target)
RulerAtOrBelowTarget(cumulative, target_cumulative_fitness) ==
    FLessEq(cumulative, target_cumulative_fitness)

\* fitness_ruler[chromosome_index][1] < target_cumulative_fitness
RulerBelowTarget(cumulative, target_cumulative_fitness) ==
    FLess(cumulative, target_cumulative_fitness)

RECURSIVE RulerWalk(_, _, _)
RulerWalk(fitness_ruler, chromosome_index, target_cumulative_fitness) ==
    IF chromosome_index > Len(fitness_ruler) THEN chromosome_index
    ELSE IF RulerBelowTarget(fitness_ruler[chromosome_index][2], target_cumulative_fitness)
    THEN RulerWalk(fitness_ruler, chromosome_index + 1, target_cumulative_fitness)
    ELSE chromosome_index

\* The outer while: one member appended and the target moved on by distance
RECURSIVE UniversalSampleLoop(_, _, _, _, _, _)
UniversalSampleLoop(fitness_ruler, chromosome_index, target_cumulative_fitness, distance, sample_size, sample) ==
    IF ~(Len(sample) < sample_size) THEN [ok |-> TRUE, val |-> sample]
    ELSE LET at == RulerWalk(fitness_ruler, chromosome_index, target_cumulative_fitness)
         IN IF at > Len(fitness_ruler) THEN [ok |-> FALSE, val |-> <<>>]
            ELSE UniversalSampleLoop(fitness_ruler, at,
                                     FAdd(target_cumulative_fitness, distance), distance,
                                     sample_size, Append(sample, fitness_ruler[at][1]))

\* The end of _stochastic_universal_sample: random.shuffle(sample); return
\* sample.  An index past the ruler has raised IndexError before that.
ShuffleSample(st, walked) ==
    IF ~walked.ok THEN [st |-> st, result |-> Raise("IndexError")]
    ELSE [st |-> Shuffle(st, walked.val).st, result |-> Ok(Shuffle(st, walked.val).val)]

\* _stochastic_universal_sample(fitness_ruler, distance, sample_size)
_stochastic_universal_sample(st, fitness_ruler, distance, sample_size) ==
    ShuffleSample(Random(st).st,
                  UniversalSampleLoop(fitness_ruler, 1, FMulRandom(Random(st).val, distance),
                                      distance, sample_size, <<>>))

\* zip(a, b) of two lists of one length
Zip(a, b) == [i \in 1..Len(a) |-> <<a[i], b[i]>>]

\* parent_pairs = list(zip(parent_sample_one, parent_sample_two))
ZipSamples(fitness_ruler, one, two) ==
    IF two.result.status # "ok"
    THEN [st |-> two.st, result |-> two.result,
          sampling |-> [ruler |-> fitness_ruler, samples |-> <<one.result.value>>]]
    ELSE [st |-> two.st, result |-> Ok(Zip(one.result.value, two.result.value)),
          sampling |-> [ruler |-> fitness_ruler,
                        samples |-> <<one.result.value, two.result.value>>]]

\* parent_sample_two, drawn when parent_sample_one has been
SecondSample(fitness_ruler, distance, sample_size, one) ==
    IF one.result.status # "ok"
    THEN [st |-> one.st, result |-> one.result,
          sampling |-> [ruler |-> fitness_ruler, samples |-> <<>>]]
    ELSE ZipSamples(fitness_ruler, one,
                    _stochastic_universal_sample(one.st, fitness_ruler, distance,
                                                 sample_size))

\* The two samples, drawn with one spacing
SamplePairs(st, fitness_ruler, distance, sample_size) ==
    SecondSample(fitness_ruler, distance, sample_size,
                 _stochastic_universal_sample(st, fitness_ruler, distance, sample_size))

\* stochastic_universal_sampling_selection from the ruler on:
\* total_fitness = fitness_ruler[-1][1]; distance = total_fitness / sample_size
SampleAlongRuler(st, fitness_ruler, sample_size) ==
    IF fitness_ruler = <<>>
    THEN [st |-> st, result |-> Raise("IndexError"),
          sampling |-> [ruler |-> fitness_ruler, samples |-> <<>>]]
    ELSE IF sample_size = 0
    THEN [st |-> st, result |-> Raise("ZeroDivisionError"),
          sampling |-> [ruler |-> fitness_ruler, samples |-> <<>>]]
    ELSE SamplePairs(st, fitness_ruler,
                     FDivInt(fitness_ruler[Len(fitness_ruler)][2], sample_size),
                     sample_size)

stochastic_universal_sampling_selection(st, evaluated_population, random_seed, num_elites) ==
    SampleAlongRuler(SeedRng(st, random_seed),
                     _calculate_accumulated_fitness(evaluated_population),
                     Len(evaluated_population) - num_elites)

\* np.random.seed(seed)
SeedNp(nst, seed) == (3 * seed + 2) % RngMod

\* list(evaluated_population) - num_elites: Python has no list - int
ListMinusInt(list, n) == [ok |-> FALSE, val |-> 0]

\* The pair loop shared by the two proportional methods: range(count), and
\* in each iteration np.random.choice over a tuple of lists, which numpy
\* rejects (its first argument must be 1-dimensional)
ProportionalPairs(count) ==
    IF ~count.ok THEN Raise("TypeError")
    ELSE IF count.val <= 0 THEN Ok(<<>>)
    ELSE Raise("ValueError")

fitness_proportionate_selection(nst, evaluated_population, random_seed, num_elites) ==
    LET seeded == SeedNp(nst, random_seed)
    IN IF evaluated_population = <<>>
       THEN [nst |-> seeded, result |-> Raise("ValueError")]   \* zip(*[]) unpacks to nothing
       ELSE [nst |-> seeded,
             result |-> ProportionalPairs(ListMinusInt(evaluated_population, num_elites))]

sigma_scaling_selection(nst, evaluated_population, random_seed, num_elites) ==
    LET seeded == SeedNp(nst, random_seed)
    IN IF evaluated_population = <<>>
       THEN [nst |-> seeded, result |-> Raise("ValueError")]
       ELSE [nst |-> seeded,
             result |-> ProportionalPairs(ListMinusInt(evaluated_population, num_elites))]

\* What select hands back from a method that uses the random module's
\* generator, and from one that uses numpy's
FromTournaments(out, nst) ==
    [st |-> out.st, nst |-> nst, result |-> out.result, tournaments |-> out.tournaments,
     sampling |-> NoSampling]

FromSampling(out, nst) ==
    [st |-> out.st, nst |-> nst, result |-> out.result, tournaments |-> <<>>,
     sampling |-> out.sampling]

FromNumpy(out, st) ==
    [st |-> st, nst |-> out.nst, result |-> out.result, tournaments |-> <<>>,
     sampling |-> NoSampling]

\* (a last branch that falls back on tournament selection)
SelectDefaultStrategy(st, nst, evaluated_population, random_seed, num_elites, tournament_size) ==
    FromTournaments(tournament_selection(st, evaluated_population, random_seed, num_elites,
                                         tournament_size), nst)

\* The last branch of select: raise NotImplementedError()
SelectUnsupported(st, nst, evaluated_population, random_seed, num_elites, tournament_size) ==
    [st |-> st, nst |-> nst, result |-> Raise("NotImplementedError"), tournaments |-> <<>>,
     sampling |-> NoSampling]

\* select(evaluated_population, random_seed, num_elites, method, tournament_size)

select(st, nst, evaluated_population, random_seed, num_elites, method, tournament_size) ==
    IF method = "TOURNAMENT"
    THEN FromTournaments(tournament_selection(st, evaluated_population, random_seed,
                                              num_elites, tournament_size), nst)
    ELSE IF method = "FITNESS"
    THEN FromNumpy(fitness_proportionate_selection(nst, evaluated_population, random_seed,
                                                   num_elites), st)
    ELSE IF method = "STOCHASTIC"
    THEN FromSampling(stochastic_universal_sampling_selection(st, evaluated_population,
                                                              random_seed, num_elites), nst)
    ELSE IF method = "SIGMA"
    THEN FromNumpy(sigma_scaling_selection(nst, evaluated_population, random_seed,
                                           num_elites), st)
    ELSE SelectUnsupported(st, nst, evaluated_population, random_seed, num_elites,
                           tournament_size)

----------------------------------------------------------------------------
(* crossover.py *)

CrossoverMethods == {"N_POINT", "UNIFORM", "CUSTOM"}

\* A mixing ratio is the fraction m / RngMod: 0.0, 0.5 and 1.0
Half == RngMod \div 2

MixingRatios == {0, Half, RngMod}

\* random.random() < mixing_ratio
BelowRatio(r, mixing_ratio) == r < mixing_ratio

\* _uniform_crossover_one_pair(parent_pair, mixing_ratio)
RECURSIVE UniformGeneLoop(_, _, _, _, _)
UniformGeneLoop(st, parent_one, parent_two, mixing_ratio, child) ==
    IF Len(child) = Len(parent_one) THEN [st |-> st, result |-> Ok(child)]
    ELSE LET index == Len(child) + 1
             r == Random(st)
         IN IF BelowRatio(r.val, mixing_ratio)
            THEN UniformGeneLoop(r.st, parent_one, parent_two, mixing_ratio,
                                 Append(child, parent_one[index]))
            ELSE IF index > Len(parent_two)
            THEN [st |-> r.st, result |-> Raise("IndexError")]
            ELSE UniformGeneLoop(r.st, parent_one, parent_two, mixing_ratio,
                                 Append(child, parent_two[index]))

_uniform_crossover_one_pair(st, parent_pair, mixing_ratio) ==
    UniformGeneLoop(st, parent_pair[1], parent_pair[2], mixing_ratio, <<>>)

RECURSIVE UniformPairLoop(_, _, _, _)
UniformPairLoop(st, parent_pairs, mixing_ratio, children) ==
    IF parent_pairs = <<>> THEN [st |-> st, result |-> Ok(children)]
    ELSE LET child == _uniform_crossover_one_pair(st, Head(parent_pairs), mixing_ratio)
         IN IF child.result.status # "ok" THEN child
            ELSE UniformPairLoop(child.st, Tail(parent_pairs), mixing_ratio,
                                 Append(children, child.result.value))

uniform_crossover(st, parent_pairs, random_seed, mixing_ratio) ==
    UniformPairLoop(SeedRng(st, random_seed), parent_pairs, mixing_ratio, <<>>)

\* n_point_crossover(parent_pairs, random_seed, num_points, mixing_ratio).
\* Its loop calls n_point_crossover again, not _n_point_crossover_one_pair:
\*     child = n_point_crossover(parent_pair, num_points, mixing_ratio)
\* so the pair is taken for the list of pairs, num_points for the seed,
\* mixing_ratio for num_points, and mixing_ratio is left at its default 0.5.
\* depth says what the first argument is: 0 the list of pairs, 1 one pair,
\* 2 one chromosome, 3 one gene (an int, which `for` cannot iterate).
RECURSIVE n_point_crossover(_, _, _, _, _, _)
RECURSIVE NPointLoop(_, _, _, _, _, _)
NPointLoop(st, depth, parent_pairs, num_points, mixing_ratio, children) ==
    IF parent_pairs = <<>> THEN [st |-> st, result |-> Ok(children)]
    ELSE LET child == n_point_crossover(st, depth + 1, Head(parent_pairs), num_points,
                                        mixing_ratio, Half)
         IN IF child.result.status # "ok" THEN child
            ELSE NPointLoop(child.st, depth, Tail(parent_pairs), num_points, mixing_ratio,
                            Append(children, child.result.value))

n_point_crossover(st, depth, parent_pairs, random_seed, num_points, mixing_ratio) ==
    LET seeded == SeedRng(st, random_seed)
    IN IF depth = 3 THEN [st |-> seeded, result |-> Raise("TypeError")]
       ELSE NPointLoop(seeded, depth, parent_pairs, num_points, mixing_ratio, <<>>)

\* num_points < parent_one: an int compared with a list
IntLessThanList(n, list) == [ok |-> FALSE, val |-> FALSE]

\* parent[start:end] with 0 <= start, end <= len(parent), 0-based
Slice(parent, start, end) == IF start >= end THEN <<>> ELSE SubSeq(parent, start + 1, end)

RECURSIVE SegmentLoop(_, _, _, _, _, _, _)
SegmentLoop(st, parent_one, parent_two, slice_indices, mixing_ratio, index, child) ==
    IF index > Len(slice_indices) - 1 THEN [st |-> st, result |-> Ok(child)]
    ELSE LET start_index == slice_indices[index]
             end_index == slice_indices[index + 1]
             r == Random(st)
             chromosome_slice ==
                 IF BelowRatio(r.val, mixing_ratio)
                 THEN Slice(parent_one, start_index, end_index)
                 ELSE Slice(parent_two, start_index, end_index)
         IN SegmentLoop(r.st, parent_one, parent_two, slice_indices, mixing_ratio, index + 1,
                        child \o chromosome_slice)

\* _n_point_crossover_one_pair(parent_pair, num_points, mixing_ratio)
_n_point_crossover_one_pair(st, parent_pair, num_points, mixing_ratio) ==
    LET parent_one == parent_pair[1]
        parent_two == parent_pair[2]
        chromosome_length == Len(parent_one)
        less == IntLessThanList(num_points, parent_one)
    IN IF ~less.ok THEN [st |-> st, result |-> Raise("TypeError")]
       ELSE IF ~less.val THEN [st |-> st, result |-> Raise("ValueError")]
       ELSE IF num_points < 0 \/ num_points > chromosome_length - 1
       THEN [st |-> st, result |-> Raise("ValueError")]
       ELSE LET cuts == Sample(st, [i \in 1..(chromosome_length - 1) |-> i], num_points)
                slice_indices == <<0>> \o cuts.val \o <<chromosome_length>>
            IN SegmentLoop(cuts.st, parent_one, parent_two, slice_indices, mixing_ratio,
                           1, <<>>)

\* The functions the driver passes as custom_function.  Each sees its
\* positional arguments as a tuple and its keyword arguments as a set of
\* <<name, value>> pairs.
CustomFunctions == {"first_parents", "count_args"}

ApplyCustom(custom_function, positional, keywords) ==
    CASE custom_function = "first_parents" ->
             [i \in 1..Len(positional[1]) |-> positional[1][i][1]]
      [] custom_function = "count_args" ->
             <<Len(positional), Cardinality(keywords)>>

\* The last branch of crossover: raise NotImplementedError()
CrossoverUnsupported(st, parent_pairs, random_seed, mixing_ratio) ==
    [st |-> st, result |-> Raise("NotImplementedError"), customCalls |-> <<>>]

\* crossover(parent_pairs, method, random_seed, num_points, custom_function,
\*           mixing_ratio, *custom_args, **custom_kwargs)
crossover(st, parent_pairs, method, random_seed, num_points, custom_function, mixing_ratio, custom_args, custom_kwargs) ==
    IF method = "N_POINT"
    THEN LET out == n_point_crossover(st, 0, parent_pairs, random_seed, num_points,
                                      mixing_ratio)
         IN [st |-> out.st, result |-> out.result, customCalls |-> <<>>]
    ELSE IF method = "UNIFORM"
    THEN LET out == uniform_crossover(st, parent_pairs, random_seed, mixing_ratio)
         IN [st |-> out.st, result |-> out.result, customCalls |-> <<>>]
    ELSE IF method = "CUSTOM"
    THEN LET positional == <<parent_pairs, custom_args, custom_kwargs>>
             keywords == {}
         IN [st |-> st,
             result |-> Ok(ApplyCustom(custom_function, positional, keywords)),
             customCalls |-> <<[positional |-> positional, keywords |-> keywords]>>]
    ELSE CrossoverUnsupported(st, parent_pairs, random_seed, mixing_ratio)

----------------------------------------------------------------------------
(* The driver *)

\* Populations of chromosomes of one length
Populations == UNION {SeqsUpTo(Chromosomes(len), MaxPop) : len \in 0..MaxLen}

Init ==
    /\ pc = "idle"
    /\ rng = RngInit
    /\ nprng = SeedNp(RngInit, 0)   \* numpy seeds itself on import: some state
    /\ call = NoCall
    /\ result = NoResult
    /\ fitnessCalls = <<>>
    /\ tournaments = <<>>
    /\ sampling = NoSampling
    /\ customCalls = <<>>
    /\ ref = NoRef

DoGenerate(searchspace_size, population_size, random_seed) ==
    LET out == generate(rng, searchspace_size, population_size, random_seed)
    IN /\ pc = "idle"
       /\ pc' = "done"
       /\ call' = [op |-> "generate",
                   args |-> <<searchspace_size, population_size, random_seed>>]
       /\ rng' = out.st
       /\ result' = out.result
       /\ UNCHANGED <<nprng, fitnessCalls, tournaments, sampling, customCalls, ref>>

Generate ==
    /\ pc = "idle"
    /\ \E searchspace_size \in 0..MaxLen, population_size \in 0..MaxPop, random_seed \in Seeds :
        DoGenerate(searchspace_size, population_size, random_seed)

Evaluate ==
    /\ pc = "idle"
    /\ \E population \in Populations, evaluation_fn \in FitnessFns :
        LET out == evaluate(population, evaluation_fn)
        IN /\ pc = "idle"
           /\ pc' = "done"
           /\ call' = [op |-> "evaluate", args |-> <<population, evaluation_fn>>]
           /\ result' = out.result
           /\ fitnessCalls' = out.calls
           /\ UNCHANGED <<rng, nprng, tournaments, sampling, customCalls, ref>>

\* Evaluated populations: what evaluate gives for a population of
\* two-gene chromosomes under a scoring function
EvaluatedPopulations ==
    {evaluate(population, evaluation_fn).result.value :
        population \in SeqsUpTo(Chromosomes(2), MaxEval), evaluation_fn \in {"sum", "neg", "diff"}}

\* The driver's state when select has returned or raised
SelectReturns(args, out) ==
    /\ pc' = "done"
    /\ call' = [op |-> "select", args |-> args]
    /\ rng' = out.st
    /\ nprng' = out.nst
    /\ result' = out.result
    /\ tournaments' = out.tournaments
    /\ sampling' = out.sampling
    /\ UNCHANGED <<fitnessCalls, customCalls, ref>>

DoSelect(evaluated_population, random_seed, num_elites, method, tournament_size) ==
    /\ pc = "idle"
    /\ SelectReturns(<<evaluated_population, random_seed, num_elites, method, tournament_size>>,
                     select(rng, nprng, evaluated_population, random_seed, num_elites, method,
                            tournament_size))

SelectTournament ==
    /\ pc = "idle"
    /\ \E evaluated_population \in EvaluatedPopulations, random_seed \in Seeds :
        \E num_elites \in 0..(Len(evaluated_population) + 1),
           tournament_size \in 0..(Len(evaluated_population) + 1) :
            DoSelect(evaluated_population, random_seed, num_elites, "TOURNAMENT",
                     tournament_size)

SelectOther ==
    /\ pc = "idle"
    /\ \E evaluated_population \in EvaluatedPopulations, random_seed \in Seeds,
       method \in SelectionMethods \ {"TOURNAMENT"} :
        \E num_elites \in 0..(Len(evaluated_population) + 1) :
            DoSelect(evaluated_population, random_seed, num_elites, method,
                     DefaultTournamentSize)

\* _tournament called on its own, with or without a previous winner
TournamentReturns(args, out) ==
    /\ pc' = "done"
    /\ call' = [op |-> "_tournament", args |-> args]
    /\ rng' = out.st
    /\ result' = out.result
    /\ tournaments' = <<[sample |-> out.sample, winner |-> out.result.value]>>
    /\ UNCHANGED <<nprng, fitnessCalls, sampling, customCalls, ref>>

TournamentOnce ==
    /\ pc = "idle"
    /\ \E evaluated_population \in EvaluatedPopulations :
        \E tournament_size \in 0..(Len(evaluated_population) + 1),
           previous_winner \in {{}} \cup {{evaluated_population[i][1]} :
                                             i \in 1..Len(evaluated_population)} :
            TournamentReturns(<<evaluated_population, tournament_size, previous_winner>>,
                              _tournament(rng, evaluated_population, tournament_size,
                                          previous_winner))

\* Parent pairs: chromosomes of one length, all ones or alternating, each
\* paired with itself or with its complement
Fill(len, g) == [i \in 1..len |-> g]
Alternating(len) == [i \in 1..len |-> (i + 1) % 2]
Complement(c) == [i \in 1..Len(c) |-> 1 - c[i]]

ParentPairsOf(len) ==
    UNION {{<<a, a>>, <<a, Complement(a)>>} :
               a \in {Fill(len, 1), Alternating(len)}}

ParentPairLists == UNION {SeqsUpTo(ParentPairsOf(len), MaxPairs) : len \in 0..MaxLen}

DoCrossover(parent_pairs, method, random_seed, num_points, custom_function, mixing_ratio, custom_args, custom_kwargs) ==
    LET out == crossover(rng, parent_pairs, method, random_seed, num_points, custom_function,
                         mixing_ratio, custom_args, custom_kwargs)
    IN /\ pc = "idle"
       /\ pc' = "done"
       /\ call' = [op |-> "crossover",
                   args |-> <<parent_pairs, method, random_seed, num_points, custom_function,
                              mixing_ratio, custom_args, custom_kwargs>>]
       /\ rng' = out.st
       /\ result' = out.result
       /\ customCalls' = out.customCalls
       /\ UNCHANGED <<nprng, fitnessCalls, tournaments, sampling, ref>>

CrossoverNPoint ==
    /\ pc = "idle"
    /\ \E parent_pairs \in ParentPairLists, random_seed \in Seeds,
          num_points \in 0..MaxLen, mixing_ratio \in MixingRatios :
            DoCrossover(parent_pairs, "N_POINT", random_seed, num_points, "none",
                        mixing_ratio, <<>>, {})

CrossoverUniform ==
    /\ pc = "idle"
    /\ \E parent_pairs \in ParentPairLists, random_seed \in Seeds,
          mixing_ratio \in MixingRatios :
            DoCrossover(parent_pairs, "UNIFORM", random_seed, 1, "none", mixing_ratio,
                        <<>>, {})

CrossoverCustom ==
    /\ pc = "idle"
    /\ \E parent_pairs \in ParentPairLists, custom_function \in CustomFunctions,
          custom_args \in {<<>>, <<"x">>, <<"x", "y">>},
          custom_kwargs \in {{}, {<<"z", 3>>}} :
            DoCrossover(parent_pairs, "CUSTOM", 0, 1, custom_function, Half,
                        custom_args, custom_kwargs)

\* A method that is no member of CrossoverMethod
CrossoverOther ==
    /\ pc = "idle"
    /\ \E parent_pairs \in ParentPairLists, random_seed \in Seeds,
          mixing_ratio \in MixingRatios :
            DoCrossover(parent_pairs, "OTHER", random_seed, 1, "none", mixing_ratio,
                        <<>>, {})

\* _n_point_crossover_one_pair called on its own
CrossoverOnePair ==
    /\ pc = "idle"
    /\ \E len \in 0..MaxLen :
        \E parent_pair \in ParentPairsOf(len), num_points \in 0..MaxLen,
           mixing_ratio \in MixingRatios :
            LET out == _n_point_crossover_one_pair(rng, parent_pair, num_points, mixing_ratio)
            IN /\ pc' = "done"
               /\ call' = [op |-> "_n_point_crossover_one_pair",
                           args |-> <<parent_pair, num_points, mixing_ratio>>]
               /\ rng' = out.st
               /\ result' = out.result
               /\ UNCHANGED <<nprng, fitnessCalls, tournaments, sampling, customCalls, ref>>

Return ==
    /\ pc = "done"
    /\ pc' = "idle"
    /\ call' = NoCall
    /\ result' = NoResult
    /\ fitnessCalls' = <<>>
    /\ tournaments' = <<>>
    /\ sampling' = NoSampling
    /\ customCalls' = <<>>
    /\ UNCHANGED <<rng, nprng, ref>>

Next ==
    \/ Generate
    \/ Evaluate
    \/ SelectTournament
    \/ SelectOther
    \/ TournamentOnce
    \/ CrossoverNPoint
    \/ CrossoverUniform
    \/ CrossoverCustom
    \/ CrossoverOther
    \/ CrossoverOnePair
    \/ Return

Spec == Init /\ [][Next]_vars

----------------------------------------------------------------------------
(* The arguments and outcome of the call that has just finished *)

Finished(op) == pc = "done" /\ call.op = op

SelPopulation == call.args[1]
SelElites == call.args[3]
SelMethod == call.args[4]
SelTournamentSize == call.args[5]
SelSize == Len(SelPopulation)

RECURSIVE TotalFitness(_)
TotalFitness(evaluated_population) ==
    IF evaluated_population = <<>> THEN 0
    ELSE evaluated_population[1][2] + TotalFitness(Tail(evaluated_population))

ChromosomesOf(evaluated_population) ==
    {evaluated_population[i][1] : i \in 1..Len(evaluated_population)}

CrossPairs == call.args[1]
CrossMethod == call.args[2]
CrossNumPoints == call.args[4]
CrossMixingRatio == call.args[6]

\* 1 <= num_points < length, for every pair of the call
NumPointsInRange(parent_pairs, num_points) ==
    \A i \in 1..Len(parent_pairs) : 1 <= num_points /\ num_points < Len(parent_pairs[i][1])

----------------------------------------------------------------------------
(* The claims *)

\* C1: generate(searchspaceSize, populationSize, seed) returns exactly
\* populationSize chromosomes, each of exactly searchspaceSize genes, every
\* gene 0 or 1.
C1_GenerateShape ==
    Finished("generate") =>
        /\ result.status = "ok"
        /\ Len(result.value) = call.args[2]
        /\ \A i \in 1..Len(result.value) :
               /\ Len(result.value[i]) = call.args[1]
               /\ \A j \in 1..Len(result.value[i]) : result.value[i][j] \in Genes

\* C2: evaluate(P, f) has the length of P, its i-th element is
\* (P[i], f(P[i])), and f was called once per chromosome, in population order.
C2_EvaluatePairsInOrder ==
    Finished("evaluate") =>
        LET population == call.args[1]
            evaluation_fn == call.args[2]
        IN /\ result.status = "ok"
           /\ Len(result.value) = Len(population)
           /\ \A i \in 1..Len(population) :
                  result.value[i] = <<population[i], ApplyFn(evaluation_fn, population[i])>>
           /\ fitnessCalls = population

C2_Witness ==
    /\ Finished("evaluate")
    /\ call.args = <<<<<<1, 1>>, <<0, 1>>>>, "sum">>
    /\ result = Ok(<<<<<<1, 1>>, 2>>, <<<<0, 1>>, 1>>>>)
    /\ fitnessCalls = <<<<1, 1>>, <<0, 1>>>>

\* C3: for Tournament, Stochastic Universal Sampling, Fitness-Proportionate
\* and Sigma Scaling, with non-negative scores of positive total,
\* 0 <= numElites < size and a valid tournament size, select returns exactly
\* size - numElites parent pairs, each of two chromosomes.
C3_SelectGivesSizeMinusElitesPairs ==
    ( /\ Finished("select")
      /\ SelMethod \in {"TOURNAMENT", "STOCHASTIC", "FITNESS", "SIGMA"}
      /\ \A i \in 1..SelSize : SelPopulation[i][2] >= 0
      /\ TotalFitness(SelPopulation) > 0
      /\ 0 <= SelElites /\ SelElites < SelSize
      /\ SelMethod = "TOURNAMENT" =>
             (1 <= SelTournamentSize /\ SelTournamentSize <= SelSize) ) =>
        /\ result.status = "ok"
        /\ Len(result.value) = SelSize - SelElites
        /\ \A i \in 1..Len(result.value) :
               /\ Len(result.value[i]) = 2
               /\ result.value[i][1] \in ChromosomesOf(SelPopulation)
               /\ result.value[i][2] \in ChromosomesOf(SelPopulation)

\* C4: N_POINT (1 <= numPoints < length) and UNIFORM crossover return one
\* child per parent pair, in pair order, child i built only from the two
\* parents of pair i.
C4_OneChildPerPair ==
    ( /\ Finished("crossover")
      /\ \/ CrossMethod = "UNIFORM"
         \/ CrossMethod = "N_POINT" /\ NumPointsInRange(CrossPairs, CrossNumPoints) ) =>
        /\ result.status = "ok"
        /\ Len(result.value) = Len(CrossPairs)
        /\ \A i \in 1..Len(CrossPairs) :
               /\ Len(result.value[i]) = Len(CrossPairs[i][1])
               /\ \A k \in 1..Len(CrossPairs[i][1]) :
                      result.value[i][k] \in {CrossPairs[i][1][k], CrossPairs[i][2][k]}

\* C5: every parent a tournament returns has the highest score among the
\* chromosomes sampled for that tournament.
C5_TournamentWinnerIsBest ==
    (Finished("select") /\ SelMethod = "TOURNAMENT") =>
        \A t \in 1..Len(tournaments) :
            \E k \in 1..Len(tournaments[t].sample) :
                /\ tournaments[t].sample[k][1] = tournaments[t].winner
                /\ \A j \in 1..Len(tournaments[t].sample) :
                       tournaments[t].sample[j][2] <= tournaments[t].sample[k][2]

\* C6: n-point crossover of a pair of length L with 1 <= numPoints < L and
\* mixingRatio 1.0 gives a child identical to parent one, for any seed, the
\* cuts being taken in ascending order so the segments cover the chromosome once.
C6_MixingOneGivesParentOne ==
    /\ ( /\ Finished("crossover")
         /\ CrossMethod = "N_POINT"
         /\ CrossMixingRatio = RngMod
         /\ NumPointsInRange(CrossPairs, CrossNumPoints) ) =>
           /\ result.status = "ok"
           /\ result.value = [i \in 1..Len(CrossPairs) |-> CrossPairs[i][1]]
    /\ ( /\ Finished("_n_point_crossover_one_pair")
         /\ call.args[3] = RngMod
         /\ 1 <= call.args[2] /\ call.args[2] < Len(call.args[1][1]) ) =>
           /\ result.status = "ok"
           /\ result.value = call.args[1][1]

\* C7 as claimed: select with tournamentSize greater than the population
\* size (Tournament), or numElites greater than the population size (any
\* method), aborts with an invalid-argument error and returns nothing.
C7_OversizeAborts ==
    ( /\ Finished("select")
      /\ \/ SelMethod = "TOURNAMENT" /\ SelTournamentSize > SelSize
         \/ SelElites > SelSize ) =>
        result.status = "ValueError"

\* C7 as amended: Tournament with tournamentSize greater than the population
\* size aborts with an invalid-argument error, and returns no pairs, when
\* numElites < size (a tournament is held); numElites is never checked: with
\* numElites >= size Tournament returns an empty list whatever the
\* tournament size, and with numElites > size Stochastic Universal Sampling
\* of a non-empty population returns an empty list too.
C7_OversizeAbortsOnlyInATournament ==
    Finished("select") =>
        /\ (SelMethod = "TOURNAMENT" /\ SelTournamentSize > SelSize /\ SelElites < SelSize) =>
               (result = Raise("ValueError") /\ tournaments = <<>>)
        /\ (SelMethod = "TOURNAMENT" /\ SelElites >= SelSize) =>
               (result = Ok(<<>>) /\ tournaments = <<>>)
        /\ (SelMethod = "STOCHASTIC" /\ SelElites > SelSize /\ SelSize > 0) =>
               result = Ok(<<>>)

C7_Witness ==
    /\ Finished("select")
    /\ SelMethod = "TOURNAMENT"
    /\ SelSize = 2
    /\ SelTournamentSize = 3
    /\ SelElites = 1
    /\ result = Raise("ValueError")

\* C8 as claimed: Fitness-Proportionate selection and Stochastic Universal
\* Sampling fail, returning no pairs, when the total fitness is zero or
\* negative (numElites < size).
C8_NonPositiveTotalFails ==
    ( /\ Finished("select")
      /\ SelMethod \in {"FITNESS", "STOCHASTIC"}
      /\ 0 <= SelElites /\ SelElites < SelSize
      /\ TotalFitness(SelPopulation) <= 0 ) =>
        result.status \notin {"ok", "none"}

\* C8 as amended: with a zero or negative total (numElites < size)
\* Fitness-Proportionate selection fails and returns no pairs; Stochastic
\* Universal Sampling does not reject the total: it returns pairs or fails
\* with an index error when its walk leaves the ruler, and when every score
\* is zero it returns size - numElites pairs, each two copies of the first
\* chromosome of the population.
C8_ZeroTotalSamplesFirstChromosome ==
    ( /\ Finished("select")
      /\ 0 <= SelElites /\ SelElites < SelSize
      /\ TotalFitness(SelPopulation) <= 0 ) =>
        /\ SelMethod = "FITNESS" =>
               (result.status \notin {"ok", "none"} /\ result.value = <<>>)
        /\ SelMethod = "STOCHASTIC" =>
               /\ result.status \in {"ok", "IndexError"}
               /\ (\A i \in 1..SelSize : SelPopulation[i][2] = 0) =>
                      result = Ok([i \in 1..(SelSize - SelElites) |->
                                      <<SelPopulation[1][1], SelPopulation[1][1]>>])

C8_Witness ==
    /\ Finished("select")
    /\ SelMethod = "STOCHASTIC"
    /\ SelPopulation = <<<<<<0, 0>>, 0>>, <<<<0, 0>>, 0>>>>
    /\ SelElites = 0
    /\ result = Ok(<<<<<<0, 0>>, <<0, 0>>>>, <<<<0, 0>>, <<0, 0>>>>>>)

\* C9: select with method RANK or BOLTZMANN, and crossover with a method
\* outside N_POINT / UNIFORM / CUSTOM, raise NotImplementedError for every
\* input: no strategy runs (no generator is seeded or drawn from, no
\* tournament is held, no custom function is called) and nothing is returned.
C9_UnsupportedMethodRaises ==
    [][ ( /\ pc = "idle"
          /\ pc' = "done"
          /\ \/ call'.op = "select" /\ call'.args[4] \in {"RANK", "BOLTZMANN"}
             \/ call'.op = "crossover" /\ call'.args[2] \notin CrossoverMethods ) =>
            /\ result' = Raise("NotImplementedError")
            /\ rng' = rng
            /\ nprng' = nprng
            /\ tournaments' = <<>>
            /\ sampling' = NoSampling
            /\ customCalls' = <<>> ]_vars

C9_Witness ==
    /\ Finished("select")
    /\ SelMethod = "RANK"
    /\ SelSize = 2
    /\ result = Raise("NotImplementedError")

\* C10: for a fixed seed, method and inputs, select (Tournament, Stochastic
\* Universal Sampling) and crossover (Uniform, N-point) end the same way on
\* every invocation, whatever generate / select / crossover calls were made
\* in between: a call that repeats a kept earlier call has its outcome.
C10_SameCallSameOutcome ==
    ( /\ pc = "done"
      /\ call.op \in {"select", "crossover"}
      /\ ref.call.op = call.op
      /\ ref.call.args = call.args ) =>
        ref.result = result

C10_Witness ==
    /\ Finished("select")
    /\ SelMethod = "TOURNAMENT"
    /\ ref.call.op = "select"
    /\ ref.call.args = call.args
    /\ result.status = "ok"
    /\ Len(result.value) = 3

----------------------------------------------------------------------------
(* Repeated calls.  The same driver, keeping one earlier call and its      *)
(* outcome (Keep) to compare later calls with; the calls are drawn from    *)
(* smaller sets.                                                           *)

Keep ==
    /\ pc = "done"
    /\ pc' = "idle"
    /\ ref' = [call |-> call, result |-> result]
    /\ call' = NoCall
    /\ result' = NoResult
    /\ fitnessCalls' = <<>>
    /\ tournaments' = <<>>
    /\ sampling' = NoSampling
    /\ customCalls' = <<>>
    /\ UNCHANGED <<rng, nprng>>

DetEvaluatedPopulations ==
    {evaluate(population, "sum").result.value :
        population \in {<<<<0, 1>>, <<1, 1>>>>, <<<<1, 1>>, <<0, 1>>, <<1, 0>>>>,
                        <<<<1, 0>>, <<0, 0>>, <<1, 1>>>>}}

DetParentPairLists ==
    {<<<<Fill(MaxLen, 1), Fill(MaxLen, 0)>>>>,
     <<<<Alternating(MaxLen), Complement(Alternating(MaxLen))>>,
       <<Fill(MaxLen, 0), Fill(MaxLen, 1)>>>>,
     <<>>}

DetGenerate ==
    /\ pc = "idle"
    /\ \E random_seed \in Seeds : DoGenerate(MaxLen, MaxPop, random_seed)

DetSelect ==
    /\ pc = "idle"
    /\ \E evaluated_population \in DetEvaluatedPopulations, random_seed \in Seeds,
          method \in {"TOURNAMENT", "STOCHASTIC"}, num_elites \in 0..1,
          tournament_size \in 1..2 :
            DoSelect(evaluated_population, random_seed, num_elites, method, tournament_size)

DetCrossover ==
    /\ pc = "idle"
    /\ \E parent_pairs \in DetParentPairLists, random_seed \in Seeds,
          method \in {"UNIFORM", "N_POINT"}, mixing_ratio \in {Half, RngMod} :
            DoCrossover(parent_pairs, method, random_seed, 1, "none", mixing_ratio, <<>>, {})

NextDet ==
    \/ DetGenerate
    \/ DetSelect
    \/ DetCrossover
    \/ Return
    \/ Keep

SpecDet == Init /\ [][NextDet]_vars

----------------------------------------------------------------------------
(* Stochastic universal sampling on populations large enough for the       *)
(* spacing total / sample_size to be rounded: SpecSus calls select with    *)
(* the STOCHASTIC method only.                                             *)

MaxSus == 5        \* select, in SpecSus: largest evaluated population

SusScores == {0, 1, 3}

SusSeeds == 0..(RngMod - 1)

\* The i-th chromosome of a population: i in binary, so that no two are equal
SusChromosome(i) == <<(i \div 4) % 2, (i \div 2) % 2, i % 2>>

\* Evaluated populations whose total is an int that float holds exactly, as
\* every total below 2^53 is in CPython
SusPopulations ==
    {[i \in 1..Len(scores) |-> <<SusChromosome(i), scores[i]>>] :
        scores \in {s \in SeqsUpTo(SusScores, MaxSus) : Sum(s) <= Pow2(FloatBits)}}

SusSelect ==
    /\ pc = "idle"
    /\ \E evaluated_population \in SusPopulations, random_seed \in SusSeeds :
        \E num_elites \in 0..Len(evaluated_population) :
            DoSelect(evaluated_population, random_seed, num_elites, "STOCHASTIC",
                     DefaultTournamentSize)

NextSus ==
    \/ SusSelect
    \/ Return

SpecSus == Init /\ [][NextSus]_vars

\* A finished STOCHASTIC call in the range of C11: scores non-negative, total
\* positive, 0 <= numElites < size
SusInRange ==
    /\ Finished("select")
    /\ SelMethod = "STOCHASTIC"
    /\ \A i \in 1..SelSize : SelPopulation[i][2] >= 0
    /\ TotalFitness(SelPopulation) > 0
    /\ 0 <= SelElites
    /\ SelElites < SelSize

\* The ruler ends at the sum of the scores
RulerEndsAtTotal ==
    /\ Len(sampling.ruler) = SelSize
    /\ sampling.ruler[SelSize][2] = FromInt(TotalFitness(SelPopulation))

\* Every sample drawn has size - numElites members, each of the population
SamplesWellFormed ==
    \A k \in 1..Len(sampling.samples) :
        /\ Len(sampling.samples[k]) = SelSize - SelElites
        /\ \A j \in 1..Len(sampling.samples[k]) :
               sampling.samples[k][j] \in ChromosomesOf(SelPopulation)

\* C11: stochastic universal sampling, for non-negative scores with a
\* positive total and 0 <= numElites < size: the ruler's last cumulative
\* value is the sum of the scores, the walk never runs past the last ruler
\* entry (no IndexError), and both samples have size - numElites members,
\* each a chromosome of the population.
C11_RulerAndSamples ==
    SusInRange =>
        /\ RulerEndsAtTotal
        /\ result.status = "ok"
        /\ Len(sampling.samples) = 2
        /\ SamplesWellFormed

\* What does hold in that range: the ruler ends at the total, the samples
\* that were drawn are well formed, and the only failure is the walk running
\* off the ruler
C11_RulerHoldsWalkMayOverrun ==
    SusInRange =>
        /\ RulerEndsAtTotal
        /\ SamplesWellFormed
        /\ \/ result.status = "ok" /\ Len(sampling.samples) = 2
           \/ result = Raise("IndexError") /\ Len(sampling.samples) < 2

----------------------------------------------------------------------------
(* The custom crossover method *)

CrossCustomFunction == call.args[5]
CrossCustomArgs == call.args[7]
CrossCustomKwargs == call.args[8]

\* C12: with method CUSTOM, crossover calls
\* custom_function(parent_pairs, *custom_args, **custom_kwargs): the extra
\* positional arguments arrive as separate positional arguments, the extra
\* keyword arguments as keyword arguments, and the function's result is
\* returned unchanged.
C12_CustomCalledWithArgsSpread ==
    (Finished("crossover") /\ CrossMethod = "CUSTOM") =>
        /\ customCalls = <<[positional |-> <<CrossPairs>> \o CrossCustomArgs,
                            keywords |-> CrossCustomKwargs]>>
        /\ result = Ok(ApplyCustom(CrossCustomFunction, customCalls[1].positional,
                                   customCalls[1].keywords))

\* What the code does: one call, with three positional arguments (the
\* pairs, the tuple of extra arguments, the dict of keyword arguments) and
\* no keyword argument; what that call returns is returned unchanged
C12_CustomGetsTupleAndDict ==
    (Finished("crossover") /\ CrossMethod = "CUSTOM") =>
        /\ customCalls = <<[positional |-> <<CrossPairs, CrossCustomArgs, CrossCustomKwargs>>,
                            keywords |-> {}]>>
        /\ result = Ok(ApplyCustom(CrossCustomFunction, customCalls[1].positional,
                                   customCalls[1].keywords))

----------------------------------------------------------------------------
(* The previous-winner guard of _tournament *)

\* C13: in tournament selection with tournamentSize >= 2, the guard is
\* applied between the two tournaments of a pair: when the chromosome that
\* ranks first in the second tournament is the winner of the first, the
\* second parent is the second tournament's runner-up.
C13_GuardBetweenTournamentsOfAPair ==
    (Finished("select") /\ SelMethod = "TOURNAMENT" /\ SelTournamentSize >= 2) =>
        \A k \in 1..(Len(tournaments) \div 2) :
            SortByScore(tournaments[2 * k].sample)[1][1] = tournaments[2 * k - 1].winner =>
                tournaments[2 * k].winner = SortByScore(tournaments[2 * k].sample)[2][1]

\* The guard does work in a call of _tournament that is given a previous
\* winner: when that chromosome ranks first, the runner-up is returned
C13_GuardWorksWhenGiven ==
    ( /\ Finished("_tournament")
      /\ result.status = "ok"
      /\ call.args[3] # {}
      /\ SortByScore(tournaments[1].sample)[1][1] \in call.args[3] ) =>
        result.value = SortByScore(tournaments[1].sample)[2][1]

\* tournament_selection never hands a previous winner over: in the model
\* both parents of every pair rank first in their tournaments
C13_BothParentsRankFirst ==
    (Finished("select") /\ SelMethod = "TOURNAMENT") =>
        \A t \in 1..Len(tournaments) :
            tournaments[t].winner = SortByScore(tournaments[t].sample)[1][1]

====
